---------------------------- MODULE Spec2Model ----------------------------
(***************************************************************************)
(* Model of ouster_viz/src/common.h: the shader program builder            *)
(* (load_shaders), the texture uploader (load_texture) and the GLSL        *)
(* stages kept in the shader-source constants (point vertex / fragment,    *)
(* ring fragment, image fragment).                                         *)
(*                                                                         *)
(* GLSL floats are modelled as exact rationals <<n, d>> in lowest terms    *)
(* with d > 0.  The results of a division by zero, which GLSL leaves       *)
(* unspecified, are the values with d = 0 (NaN, +Inf, -Inf) or any finite  *)
(* value; an operation that divides by zero chooses among them.            *)
(***************************************************************************)
EXTENDS Integers, Sequences, FiniteSets, TLC

VARIABLES
    gl,         \* GL object state seen by load_shaders: shaders, programs, names
    out,        \* what the last load_shaders call did: calls made, text printed, handle returned
    ncalls,     \* number of load_shaders calls made so far
    textures,   \* GL texture objects, by handle
    upl,        \* bookkeeping of load_texture calls: arguments of the last upload per handle
    vin,        \* inputs of the point vertex stage invocation
    vout,       \* outputs of the point vertex stage invocation
    fin,        \* inputs of a fragment stage invocation (point, image or ring)
    fout,       \* outputs of a fragment stage invocation
    pc          \* which step the current scenario is at

vars == <<gl, out, ncalls, textures, upl, vin, vout, fin, fout, pc>>

---------------------------------------------------------------------------
(* Bounds of the model *)

\* key, mask and texel components range over k/GridDen, k = 0..GridDen
GridDen == 2
\* largest number of poses in a Pose Set texture
MaxPoses == 2
\* largest number of load_shaders calls in a behaviour
MaxCalls == 2
\* largest info-log length the driver reports
MaxLogLen == 2
\* largest width / height of a generic uploaded texture
MaxDim == 2

---------------------------------------------------------------------------
(* Exact arithmetic standing for GLSL float arithmetic *)

Abs(n) == IF n < 0 THEN -n ELSE n

RECURSIVE GCD(_, _)
GCD(a, b) == IF b = 0 THEN a ELSE GCD(b, a % b)

\* the rational n/d (d # 0) in lowest terms with a positive denominator
Norm(n, d) ==
    LET s == IF d < 0 THEN -1 ELSE 1
        g == GCD(Abs(n), Abs(d))
    IN  <<(s * n) \div g, (s * d) \div g>>

R(n) == <<n, 1>>
Zero == R(0)
One == R(1)
NaN == <<0, 0>>
PosInf == <<1, 0>>
NegInf == <<-1, 0>>

IsFinite(x) == x[2] # 0

\* (common factors are taken out first, to keep the integers small)
RAdd(a, b) ==
    LET g == GCD(a[2], b[2])
    IN  Norm(a[1] * (b[2] \div g) + b[1] * (a[2] \div g), (a[2] \div g) * b[2])
RNeg(a) == <<-a[1], a[2]>>
RSub(a, b) == RAdd(a, RNeg(b))
RMul(a, b) ==
    LET x == Norm(a[1], b[2])
        y == Norm(b[1], a[2])
    IN  Norm(x[1] * y[1], x[2] * y[2])
RLt(a, b) ==
    LET g == GCD(a[2], b[2])
    IN  a[1] * (b[2] \div g) < b[1] * (a[2] \div g)
RLe(a, b) == a = b \/ RLt(a, b)
RAbs(a) == <<Abs(a[1]), a[2]>>
RFloor(a) == a[1] \div a[2]
RMin(a, b) == IF RLe(a, b) THEN a ELSE b
RMax(a, b) == IF RLe(a, b) THEN b ELSE a

\* GLSL clamp(x, lo, hi) = min(max(x, lo), hi)
RClamp(x, lo, hi) == RMin(RMax(x, lo), hi)

\* integer clamp
IClamp(i, lo, hi) == IF i < lo THEN lo ELSE IF i > hi THEN hi ELSE i

\* GLSL "/": the exact quotient, or, dividing by zero, an unspecified value
\* (GLSL 3.30, 5.9: no exception, the result is unspecified).
\* the quotient a/b, b # 0
RDiv(a, b) == RMul(a, Norm(b[2], b[1]))

DivOutcomes(a, b) ==
    IF b[1] # 0 THEN {RDiv(a, b)}
    ELSE {NaN, PosInf, NegInf, Zero, One}

\* integer square root of a perfect square, by bisection
RECURSIVE ISqrtIn(_, _, _)
ISqrtIn(n, lo, hi) ==
    IF lo >= hi THEN lo
    ELSE LET mid == (lo + hi + 1) \div 2
         IN  IF mid * mid <= n THEN ISqrtIn(n, mid, hi) ELSE ISqrtIn(n, lo, mid - 1)

\* sqrt of a rational whose numerator and denominator are perfect squares
RSqrt(a) == <<ISqrtIn(a[1], 0, 46340), ISqrtIn(a[2], 0, 46340)>>

\* GLSL length(vec2)
Length2(v) == RSqrt(RAdd(RMul(v[1], v[1]), RMul(v[2], v[2])))

\* GLSL round(): nearest integer, a fraction of 0.5 rounds in a direction the
\* implementation chooses.
RoundOutcomes(a) ==
    LET f == RFloor(a)
        frac == RSub(a, R(f))
    IN  IF frac = <<1, 2>> THEN {f, f + 1}
        ELSE IF RLt(frac, <<1, 2>>) THEN {f} ELSE {f + 1}

\* the values k/GridDen, k = 0..GridDen: the components in [0,1] of the model
Grid == {Norm(k, GridDen) : k \in 0..GridDen}

---------------------------------------------------------------------------
(* Vectors and 4x4 matrices (M[i][j]: row i, column j) *)

V3(x, y, z) == <<R(x), R(y), R(z)>>

VScale(v, s) == [i \in DOMAIN v |-> RMul(v[i], s)]
VAdd(v, w) == [i \in DOMAIN v |-> RAdd(v[i], w[i])]

\* GLSL mat4 * vec4
MatVec(M, v) ==
    [i \in 1..4 |->
        RAdd(RAdd(RMul(M[i][1], v[1]), RMul(M[i][2], v[2])),
             RAdd(RMul(M[i][3], v[3]), RMul(M[i][4], v[4])))]

\* GLSL mat4(c1, c2, c3, c4): the constructor takes the matrix column by column
Mat4FromColumns(c1, c2, c3, c4) ==
    LET cols == <<c1, c2, c3, c4>>
    IN  [i \in 1..4 |-> [j \in 1..4 |-> cols[j][i]]]

\* a rigid transform from an integer rotation block (rows) and a translation
Rigid(rot, tr) ==
    [i \in 1..4 |-> [j \in 1..4 |->
        IF i = 4 THEN (IF j = 4 THEN One ELSE Zero)
        ELSE IF j = 4 THEN R(tr[i]) ELSE R(rot[i][j])]]

IdRot == <<<<1, 0, 0>>, <<0, 1, 0>>, <<0, 0, 1>>>>
\* rotation by 90 degrees about z
RotZ == <<<<0, -1, 0>>, <<1, 0, 0>>, <<0, 0, 1>>>>
\* rotation by 90 degrees about x
RotX == <<<<1, 0, 0>>, <<0, 0, -1>>, <<0, 1, 0>>>>

Identity4 == Rigid(IdRot, <<0, 0, 0>>)

---------------------------------------------------------------------------
(* load_shaders: the GL objects it touches *)

\* The driver's verdicts for one load_shaders call: whether each stage
\* compiles, whether the program links, and the info-log length it reports
\* for each of the three steps.  A program whose stage failed to compile
\* does not link.
DriverOutcomes ==
    {d \in [vOK : BOOLEAN, vLen : 0..MaxLogLen, fOK : BOOLEAN,
            fLen : 0..MaxLogLen, lOK : BOOLEAN, lLen : 0..MaxLogLen] :
        d.lOK => (d.vOK /\ d.fOK)}

\* shader and program objects share one name space; the driver hands out
\* the least name not in use (0 is never a name)
FreshName(g) ==
    CHOOSE n \in 1..(Cardinality(DOMAIN g.shaders) + Cardinality(DOMAIN g.programs) + 1) :
        /\ n \notin DOMAIN g.shaders
        /\ n \notin DOMAIN g.programs
        /\ \A k \in 1..(n - 1) : k \in DOMAIN g.shaders \/ k \in DOMAIN g.programs

Call(m, name) == [m EXCEPT !.calls = Append(@, name)]

\* glCreateShader(type)
glCreateShader(m, id, type) ==
    [Call(m, "glCreateShader") EXCEPT !.gl.shaders =
        [s \in DOMAIN m.gl.shaders \cup {id} |->
            IF s = id THEN [type |-> type, compiled |-> FALSE, logLen |-> 0,
                            flagged |-> FALSE]
            ELSE m.gl.shaders[s]]]

\* glShaderSource; glCompileShader: the driver decides the status and the log
glCompileShader(m, id, ok, len) ==
    [Call(Call(m, "glShaderSource"), "glCompileShader") EXCEPT
        !.gl.shaders[id].compiled = ok, !.gl.shaders[id].logLen = len]

\* glGetShaderiv(COMPILE_STATUS, &result); glGetShaderiv(INFO_LOG_LENGTH, ..);
\* if (info_log_length > 0) { glGetShaderInfoLog; printf }
\* result is read and never used.
CheckShader(m, id) ==
    LET m1 == Call(Call(m, "glGetShaderiv"), "glGetShaderiv")
        info_log_length == m1.gl.shaders[id].logLen
    IN  IF info_log_length > 0
        THEN [Call(m1, "glGetShaderInfoLog") EXCEPT
                !.printed = Append(@, <<m1.gl.shaders[id].type, info_log_length>>)]
        ELSE m1

\* glCreateProgram()
glCreateProgram(m, id) ==
    [Call(m, "glCreateProgram") EXCEPT !.gl.programs =
        [p \in DOMAIN m.gl.programs \cup {id} |->
            IF p = id THEN [attached |-> {}, linked |-> FALSE, logLen |-> 0]
            ELSE m.gl.programs[p]]]

glAttachShader(m, prog, sh) ==
    [Call(m, "glAttachShader") EXCEPT !.gl.programs[prog].attached = @ \cup {sh}]

\* glLinkProgram: links only if every attached stage compiled
glLinkProgram(m, prog, ok, len) ==
    [Call(m, "glLinkProgram") EXCEPT
        !.gl.programs[prog].linked =
            ok /\ \A s \in m.gl.programs[prog].attached : m.gl.shaders[s].compiled,
        !.gl.programs[prog].logLen = len]

\* glGetProgramiv(LINK_STATUS); glGetProgramiv(INFO_LOG_LENGTH); print if > 0
CheckProgram(m, prog) ==
    LET m1 == Call(Call(m, "glGetProgramiv"), "glGetProgramiv")
        info_log_length == m1.gl.programs[prog].logLen
    IN  IF info_log_length > 0
        THEN [Call(m1, "glGetProgramInfoLog") EXCEPT
                !.printed = Append(@, <<"PROGRAM", info_log_length>>)]
        ELSE m1

Attached(g, sh) == \E p \in DOMAIN g.programs : sh \in g.programs[p].attached

RemoveShader(g, sh) ==
    [g EXCEPT !.shaders = [s \in DOMAIN g.shaders \ {sh} |-> g.shaders[s]]]

\* glDetachShader: a shader flagged for deletion goes once nothing holds it
glDetachShader(m, prog, sh) ==
    LET m1 == [Call(m, "glDetachShader") EXCEPT
                !.gl.programs[prog].attached = @ \ {sh}]
    IN  IF sh \in DOMAIN m1.gl.shaders /\ m1.gl.shaders[sh].flagged
           /\ ~Attached(m1.gl, sh)
        THEN [m1 EXCEPT !.gl = RemoveShader(m1.gl, sh)]
        ELSE m1

\* glDeleteShader: deleted at once unless attached, then only flagged
glDeleteShader(m, sh) ==
    LET m1 == Call(m, "glDeleteShader")
    IN  IF Attached(m1.gl, sh)
        THEN [m1 EXCEPT !.gl.shaders[sh].flagged = TRUE]
        ELSE [m1 EXCEPT !.gl = RemoveShader(m1.gl, sh)]

\* common.h 32-67: create both stage objects, compile and check each
CompileStages(g, d) ==
    LET m0 == [gl |-> g, calls |-> <<>>, printed |-> <<>>, ret |-> 0,
               vs |-> 0, fs |-> 0]
        vertex_shader_id == FreshName(m0.gl)
        m1 == glCreateShader(m0, vertex_shader_id, "VERTEX")
        fragment_shader_id == FreshName(m1.gl)
        m2 == glCreateShader(m1, fragment_shader_id, "FRAGMENT")
        m3 == CheckShader(glCompileShader(m2, vertex_shader_id, d.vOK, d.vLen),
                          vertex_shader_id)
        m4 == CheckShader(glCompileShader(m3, fragment_shader_id, d.fOK, d.fLen),
                          fragment_shader_id)
    IN  [m4 EXCEPT !.vs = vertex_shader_id, !.fs = fragment_shader_id]

\* common.h 69-83: create the program, attach, link, check
LinkStages(m, d) ==
    LET program_id == FreshName(m.gl)
        m1 == glCreateProgram(m, program_id)
        m2 == glAttachShader(glAttachShader(m1, program_id, m.vs), program_id, m.fs)
        m3 == CheckProgram(glLinkProgram(m2, program_id, d.lOK, d.lLen), program_id)
    IN  [m3 EXCEPT !.ret = program_id]

\* common.h 85-91: detach and delete both stages, return the program handle
ReleaseStages(m) ==
    LET m1 == glDetachShader(glDetachShader(m, m.ret, m.vs), m.ret, m.fs)
    IN  glDeleteShader(glDeleteShader(m1, m.vs), m.fs)

\* a fail-fast variant: stop at the first failed compile and return 0
LoadShadersFailFast(g, d) ==
    IF d.vOK /\ d.fOK THEN ReleaseStages(LinkStages(CompileStages(g, d), d))
    ELSE CompileStages(g, d)

\* load_shaders(vertex_shader_code, fragment_shader_code)
load_shaders(g, d) == ReleaseStages(LinkStages(CompileStages(g, d), d))

\* the GL calls of one complete load_shaders run that printed nothing
FullCallOrder ==
    <<"glCreateShader", "glCreateShader",
      "glShaderSource", "glCompileShader", "glGetShaderiv", "glGetShaderiv",
      "glShaderSource", "glCompileShader", "glGetShaderiv", "glGetShaderiv",
      "glCreateProgram", "glAttachShader", "glAttachShader", "glLinkProgram",
      "glGetProgramiv", "glGetProgramiv",
      "glDetachShader", "glDetachShader", "glDeleteShader", "glDeleteShader">>

IsLogFetch(c) ==
    c \in {"glGetShaderInfoLog", "glGetProgramInfoLog"}

NoOutput == [calls |-> <<>>, printed |-> <<>>, ret |-> 0, d |-> [vOK |-> TRUE,
             vLen |-> 0, fOK |-> TRUE, fLen |-> 0, lOK |-> TRUE, lLen |-> 0]]

NoTextures == <<>>
NoStage == [stage |-> "none"]

InitBuild ==
    /\ gl = [shaders |-> <<>>, programs |-> <<>>]
    /\ out = NoOutput
    /\ ncalls = 0
    /\ textures = NoTextures
    /\ upl = <<>>
    /\ vin = NoStage /\ vout = NoStage /\ fin = NoStage /\ fout = NoStage
    /\ pc = "build"

\* one call of load_shaders, the driver's verdicts being d
LoadShadersCall ==
    /\ pc = "build"
    /\ ncalls < MaxCalls
    /\ \E d \in DriverOutcomes :
        LET m == load_shaders(gl, d)
        IN  /\ gl' = m.gl
            /\ out' = [calls |-> m.calls, printed |-> m.printed, ret |-> m.ret,
                       d |-> d]
    /\ ncalls' = ncalls + 1
    /\ UNCHANGED <<textures, upl, vin, vout, fin, fout, pc>>

NextBuild == LoadShadersCall

SpecBuild == InitBuild /\ [][NextBuild]_vars

---------------------------------------------------------------------------
(* load_texture: GL texture objects *)

\* a texture object as glGenTextures / the first glBindTexture leaves it
DefaultTexture ==
    [max_level |-> 1000, base_level |-> 0,
     mag_filter |-> "GL_LINEAR", min_filter |-> "GL_NEAREST_MIPMAP_LINEAR",
     wrap_s |-> "GL_REPEAT", wrap_t |-> "GL_REPEAT",
     width |-> 0, height |-> 0, internal_format |-> "none", image |-> <<>>]

\* number of host array elements per texel
Channels(format) == IF format = "GL_RED" THEN 1 ELSE 3

\* what the internal format keeps of one component: a float format keeps the
\* value; GL_RGB is 8-bit unsigned normalised (clamp to [0,1], nearest k/255,
\* a tie going the way the driver rounds)
StoreComponent(internal_format, v, tieUp) ==
    IF internal_format = "GL_RGB32F" THEN v
    ELSE LET x == RMul(RClamp(v, Zero, One), R(255))
             f == RFloor(x)
             frac == RSub(x, R(f))
             k == IF frac = <<1, 2>> THEN (IF tieUp THEN f + 1 ELSE f)
                  ELSE IF RLt(frac, <<1, 2>>) THEN f ELSE f + 1
         IN  Norm(k, 255)

\* the texel (x, y) of a level built from a row-major host array
TexelOf(texture, width, x, y, internal_format, format, tieUp) ==
    LET ch == Channels(format)
        at(k) == StoreComponent(internal_format,
                                texture[(y * width + x) * ch + k], tieUp)
    IN  IF ch = 1 THEN <<at(1), Zero, Zero, One>>
        ELSE <<at(1), at(2), at(3), One>>

\* glTexImage2D(GL_TEXTURE_2D, 0, ...): level 0 is replaced as a whole;
\* image[y + 1][x + 1] is the texel of column x, row y
glTexImage2D(t, internal_format, width, height, format, texture, tieUp) ==
    [t EXCEPT !.width = width, !.height = height,
              !.internal_format = internal_format,
              !.image = [y \in 1..height |-> [x \in 1..width |->
                            TexelOf(texture, width, x - 1, y - 1,
                                    internal_format, format, tieUp)]]]

\* an uploader that writes over the old level 0 (glTexSubImage2D-like):
\* texels outside the new array's extent survive
LoadTextureSubImage(texs, texture, width, height, texture_id, internal_format, format, tieUp) ==
    LET old == texs[texture_id]
        new == glTexImage2D(old, internal_format, width, height, format,
                            texture, tieUp)
        w == IF old.width > width THEN old.width ELSE width
        h == IF old.height > height THEN old.height ELSE height
    IN  [texs EXCEPT ![texture_id] =
            [new EXCEPT !.max_level = 0, !.base_level = 0,
                        !.mag_filter = "GL_NEAREST", !.min_filter = "GL_NEAREST",
                        !.wrap_s = "GL_CLAMP_TO_EDGE", !.wrap_t = "GL_CLAMP_TO_EDGE",
                        !.width = w, !.height = h,
                        !.image = [y \in 1..h |-> [x \in 1..w |->
                            IF y <= height /\ x <= width THEN new.image[y][x]
                            ELSE IF y <= old.height /\ x <= old.width
                                 THEN old.image[y][x]
                                 ELSE <<Zero, Zero, Zero, One>>]]]]

\* an uploader that leaves the wrap mode at the GL default (GL_REPEAT)
LoadTextureNoClamp(texs, texture, width, height, texture_id, internal_format, format, tieUp) ==
    [texs EXCEPT ![texture_id] =
        glTexImage2D([@ EXCEPT !.max_level = 0, !.base_level = 0,
                               !.mag_filter = "GL_NEAREST",
                               !.min_filter = "GL_NEAREST"],
                     internal_format, width, height, format, texture, tieUp)]

\* load_texture(texture, width, height, texture_id, internal_format, format,
\* type): bind, fix the sampling state, upload level 0.  type is GL_FLOAT
\* throughout; tieUp is the driver's rounding of a tie.
load_texture(texs, texture, width, height, texture_id, internal_format, format, tieUp) ==
    [texs EXCEPT ![texture_id] =
        glTexImage2D([@ EXCEPT !.max_level = 0, !.base_level = 0,
                               !.mag_filter = "GL_NEAREST",
                               !.min_filter = "GL_NEAREST",
                               !.wrap_s = "GL_CLAMP_TO_EDGE",
                               !.wrap_t = "GL_CLAMP_TO_EDGE"],
                     internal_format, width, height, format, texture, tieUp)]

---------------------------------------------------------------------------
(* GLSL texture(sampler2D, vec2) on such a texture object *)

\* Only level 0 is ever uploaded: the texture is complete when it has
\* texels and the minification filter needs no further level
Complete(t) ==
    /\ t.width > 0 /\ t.height > 0
    /\ \/ t.min_filter \in {"GL_NEAREST", "GL_LINEAR"}
       \/ t.max_level = t.base_level
       \/ (t.width = 1 /\ t.height = 1)

WrapIndex(mode, i, n) ==
    IF mode = "GL_CLAMP_TO_EDGE" THEN IClamp(i, 0, n - 1) ELSE i % n

Mix(a, b, w) == RAdd(RMul(a, RSub(One, w)), RMul(b, w))

\* texels are fetched at level 0 with the magnification filter
\* (vertex-stage and look-up-table fetches have level of detail 0)
Sample(t, s, tc) ==
    IF ~Complete(t) THEN <<Zero, Zero, Zero, One>>
    ELSE IF t.mag_filter = "GL_NEAREST"
    THEN LET i == WrapIndex(t.wrap_s, RFloor(RMul(s, R(t.width))), t.width)
             j == WrapIndex(t.wrap_t, RFloor(RMul(tc, R(t.height))), t.height)
         IN  t.image[j + 1][i + 1]
    ELSE LET u == RSub(RMul(s, R(t.width)), <<1, 2>>)
             v == RSub(RMul(tc, R(t.height)), <<1, 2>>)
             i0 == RFloor(u)
             j0 == RFloor(v)
             a == RSub(u, R(i0))
             b == RSub(v, R(j0))
             tx(i, j) == t.image[WrapIndex(t.wrap_t, j, t.height) + 1]
                                [WrapIndex(t.wrap_s, i, t.width) + 1]
         IN  [k \in 1..4 |->
                Mix(Mix(tx(i0, j0)[k], tx(i0 + 1, j0)[k], a),
                    Mix(tx(i0, j0 + 1)[k], tx(i0 + 1, j0 + 1)[k], a), b)]

---------------------------------------------------------------------------
(* The texture uploader on its own *)

\* texture handles, named by the sampler they are bound to
TexIds == {"transformation", "palette"}

\* host arrays of n floats: all zero, or a ramp that leaves [0,1]
HostArray(pattern, n) ==
    [k \in 1..n |-> IF pattern = "zero" THEN Zero ELSE Norm(k - 1, GridDen)]

\* (internal_format, format) pairs the callers use
FormatPairs ==
    {<<"GL_RGB", "GL_RGB">>, <<"GL_RGB32F", "GL_RGB">>, <<"GL_RGB32F", "GL_RED">>}

NotUploaded ==
    [uploaded |-> FALSE, texture |-> <<>>, width |-> 0, height |-> 0,
     internal_format |-> "none", format |-> "none", tieUp |-> FALSE]

InitTex ==
    /\ gl = [shaders |-> <<>>, programs |-> <<>>]
    /\ out = NoOutput
    /\ ncalls = 0
    /\ textures = [h \in TexIds |-> DefaultTexture]
    /\ upl = [h \in TexIds |-> NotUploaded]
    /\ vin = NoStage /\ vout = NoStage /\ fin = NoStage /\ fout = NoStage
    /\ pc = "tex"

\* one load_texture call with any handle, size, formats and array
LoadTextureCall ==
    /\ pc = "tex"
    /\ \E h \in TexIds, width \in 0..MaxDim, height \in {1, MaxDim},
          fp \in FormatPairs, pattern \in {"zero", "ramp"}, tieUp \in BOOLEAN :
        LET texture == HostArray(pattern, width * height * Channels(fp[2]))
        IN  /\ textures' = load_texture(textures, texture, width, height, h,
                                        fp[1], fp[2], tieUp)
            /\ upl' = [upl EXCEPT ![h] =
                        [uploaded |-> TRUE, texture |-> texture, width |-> width,
                         height |-> height, internal_format |-> fp[1],
                         format |-> fp[2], tieUp |-> tieUp]]
    /\ UNCHANGED <<gl, out, ncalls, vin, vout, fin, fout, pc>>

NextTex == LoadTextureCall

SpecTex == InitTex /\ [][NextTex]_vars

---------------------------------------------------------------------------
(* The point vertex stage and the Pose Set texture *)

\* the rigid transforms a Pose Set is drawn from
PoseChoices ==
    {Identity4, Rigid(IdRot, <<1, 0, 0>>), Rigid(RotZ, <<0, 1, 2>>)}

PoseSets == UNION {[1..w -> PoseChoices] : w \in 1..MaxPoses}

\* Pose Set texture as the shader's documentation has it: the texel of row y
\* in column x holds column y of pose x (three rotation columns, translation)
EncodeColumns(ps) ==
    LET w == Len(ps)
    IN  [n \in 1..(w * 4 * 3) |->
            LET k == ((n - 1) % 3) + 1
                x == ((n - 1) \div 3) % w
                y == ((n - 1) \div 3) \div w
            IN  ps[x + 1][k][y + 1]]

\* Pose Set texture with the rotation stored row by row: the texel of row
\* y < 3 holds rotation-matrix row y, the fourth texel the translation
EncodeRows(ps) ==
    LET w == Len(ps)
    IN  [n \in 1..(w * 4 * 3) |->
            LET k == ((n - 1) % 3) + 1
                x == ((n - 1) \div 3) % w
                y == ((n - 1) \div 3) \div w
            IN  IF y < 3 THEN ps[x + 1][y + 1][k] ELSE ps[x + 1][k][4]]

Encode(layout, ps) ==
    IF layout = "columns" THEN EncodeColumns(ps) ELSE EncodeRows(ps)

\* a variant that applies the model transform to the origin of an invalid point
LocalPointModelOrigin(model, a) ==
    IF RLt(Zero, a.range)
    THEN MatVec(model, VAdd(VScale(a.xyz, a.range), a.offset) \o <<One>>)
    ELSE MatVec(model, <<Zero, Zero, Zero, One>>)

\* vec4 local_point = range > 0 ? model * vec4(xyz * range + offset, 1.0)
\*                              : vec4(0, 0, 0, 1.0);
LocalPoint(model, a) ==
    IF RLt(Zero, a.range)
    THEN MatVec(model, VAdd(VScale(a.xyz, a.range), a.offset) \o <<One>>)
    ELSE <<Zero, Zero, Zero, One>>

\* the four texture fetches of the vertex stage
PoseTexels(transformation, trans_index) ==
    [r0 |-> Sample(transformation, trans_index, <<1, 8>>),
     r1 |-> Sample(transformation, trans_index, <<3, 8>>),
     r2 |-> Sample(transformation, trans_index, <<5, 8>>),
     t |-> Sample(transformation, trans_index, <<7, 8>>)]

\* a variant that takes the fetched texels as the rows of the rotation block
CarPoseFromRows(p) ==
    [i \in 1..4 |-> [j \in 1..4 |->
        IF i = 4 THEN (IF j = 4 THEN One ELSE Zero)
        ELSE IF j = 4 THEN p.t[i]
        ELSE <<p.r0, p.r1, p.r2>>[i][j]]]

\* mat4 car_pose = mat4(r0.x, r0.y, r0.z, 0, r1.x, ..., t.x, t.y, t.z, 1)
CarPose(p) ==
    Mat4FromColumns(<<p.r0[1], p.r0[2], p.r0[3], Zero>>,
                    <<p.r1[1], p.r1[2], p.r1[3], Zero>>,
                    <<p.r2[1], p.r2[2], p.r2[3], Zero>>,
                    <<p.t[1], p.t[2], p.t[3], One>>)

\* main() of point_vertex_shader_code
point_vertex_shader(transformation, model, proj_view, a) ==
    LET local_point == LocalPoint(model, a)
        p == PoseTexels(transformation, a.trans_index)
        car_pose == CarPose(p)
    IN  [stage |-> "point_vertex", local_point |-> local_point,
         texels |-> p, car_pose |-> car_pose,
         gl_Position |-> MatVec(proj_view, MatVec(car_pose, local_point)),
         key |-> a.vkey, mask |-> a.vmask]

\* vertex attribute values
TransIndices == {Norm(k, 2 * MaxPoses) : k \in (-1)..(2 * MaxPoses + 1)}
Directions == {V3(0, 0, 0), V3(0, 1, 1)}
Offsets == {V3(0, 0, 0), V3(0, 0, 1)}
Ranges == {R(-1), Zero, One, R(2)}
KeyMaskPairs == {<<<<Zero, One, Zero, <<1, 2>>>>, <<Zero, Zero, One, One>>>>}
PointAttributes ==
    {[xyz |-> xyz, offset |-> off, range |-> rg, trans_index |-> ti,
      vkey |-> km[1], vmask |-> km[2]] :
        xyz \in Directions, off \in Offsets, rg \in Ranges,
        ti \in TransIndices, km \in KeyMaskPairs}

\* uniforms
Models == {Identity4, Rigid(RotX, <<0, 2, 0>>)}
\* the identity and a perspective-like matrix (w taken from -z, x scaled)
ProjViews ==
    {Identity4,
     <<V3(2, 0, 0) \o <<Zero>>, V3(0, 1, 0) \o <<Zero>>,
       V3(0, 0, 1) \o <<One>>, V3(0, 0, -1) \o <<Zero>>>>}

InitPose ==
    /\ gl = [shaders |-> <<>>, programs |-> <<>>]
    /\ out = NoOutput
    /\ ncalls = 0
    /\ textures = [h \in TexIds |-> DefaultTexture]
    /\ upl = [poses |-> <<>>, layout |-> "none"]
    /\ vin = NoStage /\ vout = NoStage /\ fin = NoStage /\ fout = NoStage
    /\ pc = "pose"

\* the host writes a Pose Set into the transformation texture (float RGB,
\* width = number of poses, height = 4) through load_texture
UploadPoseSet ==
    /\ pc \in {"pose", "uploaded"}
    /\ \E ps \in PoseSets, layout \in {"columns", "rows"} :
        /\ textures' = load_texture(textures, Encode(layout, ps), Len(ps), 4,
                                    "transformation", "GL_RGB32F", "GL_RGB", FALSE)
        /\ upl' = [poses |-> ps, layout |-> layout]
    /\ pc' = "uploaded"
    /\ UNCHANGED <<gl, out, ncalls, vin, vout, fin, fout>>

\* one invocation of the point vertex stage
PointVertex ==
    /\ pc = "uploaded"
    /\ \E a \in PointAttributes, model \in Models, proj_view \in ProjViews :
        /\ vin' = [stage |-> "point_vertex", a |-> a, model |-> model,
                   proj_view |-> proj_view]
        /\ vout' = point_vertex_shader(textures["transformation"], model,
                                       proj_view, a)
    /\ pc' = "drawn"
    /\ UNCHANGED <<gl, out, ncalls, textures, upl, fin, fout>>

\* the draw call is over; the next frame may upload and draw again
EndDraw ==
    /\ pc = "drawn"
    /\ vin' = NoStage /\ vout' = NoStage
    /\ pc' = "uploaded"
    /\ UNCHANGED <<gl, out, ncalls, textures, upl, fin, fout>>

NextPose == UploadPoseSet \/ PointVertex \/ EndDraw

SpecPose == InitPose /\ [][NextPose]_vars

---------------------------------------------------------------------------
(* Properties of load_shaders (SpecBuild) *)

CallsWithoutLogFetch == SelectSeq(out.calls, LAMBDA c : ~IsLogFetch(c))

\* C6: load_shaders is log-and-continue.  Whatever the compile and link
\* outcomes, a call makes every GL call of the full sequence in order (create
\* both stages, compile and check each, create the program, attach, link,
\* check, detach, delete) and returns the handle of the program it created,
\* never a distinguished failure value; at return no stage object is alive or
\* attached, so after n calls there are no live stage objects and exactly n
\* programs.
LoadShadersLogAndContinue ==
    /\ DOMAIN gl.shaders = {}
    /\ Cardinality(DOMAIN gl.programs) = ncalls
    /\ \A p \in DOMAIN gl.programs : gl.programs[p].attached = {}
    /\ ncalls > 0 =>
        /\ CallsWithoutLogFetch = FullCallOrder
        /\ out.ret # 0
        /\ out.ret \in DOMAIN gl.programs
        /\ gl.programs[out.ret].linked = out.d.lOK

\* C6 witness: a second call whose vertex stage failed to compile has returned
LoadShadersFailedCallReturned ==
    /\ ncalls = 2
    /\ ~out.d.vOK
    /\ ~gl.programs[out.ret].linked

StepFailed(step) ==
    IF step = "VERTEX" THEN ~out.d.vOK
    ELSE IF step = "FRAGMENT" THEN ~out.d.fOK
    ELSE ~gl.programs[out.ret].linked

PrintedSteps == [i \in DOMAIN out.printed |-> out.printed[i][1]]

\* C7: the steps whose log was printed by the last call are exactly the steps
\* that failed, in the order vertex, fragment, link, whatever info-log
\* length the driver reported.
DiagnosticsFollowFailure ==
    ncalls > 0 =>
        PrintedSteps = SelectSeq(<<"VERTEX", "FRAGMENT", "PROGRAM">>, StepFailed)

---------------------------------------------------------------------------
(* Properties of load_texture (SpecTex) *)

\* C8: every texture that has been uploaded has base level = max level = 0,
\* nearest magnification and minification filters, clamp-to-edge wrapping on
\* both axes, and holds as level 0 the whole array of the most recent upload
\* to it, with that upload's width and height: every texel comes from that
\* array (stored as the upload's internal format stores it), none from an
\* earlier upload.  A texture never uploaded keeps the GL defaults.
TextureUploaderInvariant ==
    \A h \in TexIds :
        LET t == textures[h]
            u == upl[h]
        IN  IF ~u.uploaded THEN t = DefaultTexture
            ELSE /\ t.base_level = 0 /\ t.max_level = 0
                 /\ t.mag_filter = "GL_NEAREST" /\ t.min_filter = "GL_NEAREST"
                 /\ t.wrap_s = "GL_CLAMP_TO_EDGE" /\ t.wrap_t = "GL_CLAMP_TO_EDGE"
                 /\ t.width = u.width /\ t.height = u.height
                 /\ DOMAIN t.image = 1..u.height
                 /\ \A y \in 1..u.height :
                        /\ DOMAIN t.image[y] = 1..u.width
                        /\ \A x \in 1..u.width :
                            \A k \in 1..Channels(u.format) :
                                t.image[y][x][k] =
                                    StoreComponent(u.internal_format,
                                        u.texture[((y - 1) * u.width + (x - 1))
                                                  * Channels(u.format) + k],
                                        u.tieUp)

\* C8 witness: a texture that held a 2 x 2 level now holds a later, smaller
\* upload, while the other texture holds its own
TextureReplacedBySmallerUpload ==
    /\ upl["palette"].uploaded
    /\ upl["transformation"].uploaded
    /\ textures["transformation"].width = 1
    /\ textures["transformation"].height = 1
    /\ textures["palette"].width = 2
    /\ textures["palette"].height = 2
    /\ textures["palette"].image[2][2][1] # Zero

---------------------------------------------------------------------------
(* Properties of the point vertex stage (SpecPose) *)

\* the texture column a normalised index falls in, under nearest filtering
\* with clamp-to-edge
SelectedColumn(trans_index, w) == IClamp(RFloor(RMul(trans_index, R(w))), 0, w - 1)

InsideTexture(trans_index) == RLe(Zero, trans_index) /\ RLt(trans_index, One)

\* C3 as stated: with the rotation stored row by row (texel row r of column c
\* holds matrix row r of pose c, the translation in the fourth texel), the
\* matrix decoded from column c is pose c.
PoseRoundTripRowLayout ==
    (pc = "drawn" /\ upl.layout = "rows" /\ InsideTexture(vin.a.trans_index)) =>
        vout.car_pose =
            upl.poses[SelectedColumn(vin.a.trans_index, Len(upl.poses)) + 1]

\* C3 amended: with the layout the shader documents (texel row r of column c
\* holds matrix column r of pose c: the three rotation columns, then the
\* translation), the matrix decoded from column c by the samples at rows
\* 0.125, 0.375, 0.625, 0.875 is pose c exactly, bottom row [0,0,0,1].
PoseRoundTripColumnLayout ==
    (pc = "drawn" /\ upl.layout = "columns" /\ InsideTexture(vin.a.trans_index)) =>
        /\ vout.car_pose =
            upl.poses[SelectedColumn(vin.a.trans_index, Len(upl.poses)) + 1]
        /\ vout.car_pose[4] = <<Zero, Zero, Zero, One>>

\* C3 witness: a pose with a non-symmetric rotation, stored in the second
\* column in the documented layout, has been decoded
RotatedPoseDecoded ==
    /\ pc = "drawn"
    /\ upl.layout = "columns"
    /\ Len(upl.poses) = 2
    /\ upl.poses[2] = Rigid(RotZ, <<0, 1, 2>>)
    /\ vin.a.trans_index = <<3, 4>>

PointInput == VAdd(VScale(vin.a.xyz, vin.a.range), vin.a.offset) \o <<One>>

\* C4 as stated: for range <= 0 the local position is model * (0,0,0,1), for
\* every model matrix.
InvalidPointAtModelOrigin ==
    (pc = "drawn" /\ RLe(vin.a.range, Zero)) =>
        vout.local_point = MatVec(vin.model, <<Zero, Zero, Zero, One>>)

\* C4 amended: for range <= 0 the local position fed to the pose transform is
\* (0,0,0,1) itself, whatever xyz, offset and the model matrix are (the model
\* transform is not applied to it); for range > 0 the clip position is
\* proj_view * pose * model * (xyz*range + offset, 1).
InvalidPointAtOrigin ==
    pc = "drawn" =>
        /\ RLe(vin.a.range, Zero) =>
            /\ vout.local_point = <<Zero, Zero, Zero, One>>
            /\ vout.gl_Position = MatVec(vin.proj_view,
                                         MatVec(vout.car_pose, <<Zero, Zero, Zero, One>>))
        /\ RLt(Zero, vin.a.range) =>
            vout.gl_Position =
                MatVec(vin.proj_view,
                       MatVec(vout.car_pose, MatVec(vin.model, PointInput)))

\* C4 witness: an invalid point with non-zero xyz and offset under a model
\* matrix that moves the origin
InvalidPointUnderMovingModel ==
    /\ pc = "drawn"
    /\ vin.a.range = R(-1)
    /\ vin.a.xyz = V3(0, 1, 1)
    /\ vin.a.offset = V3(0, 0, 1)
    /\ vin.model = Rigid(RotX, <<0, 2, 0>>)

\* C5: after an upload through load_texture, the four texels fetched for a
\* point are those of column clamp(floor(trans_index * W), 0, W-1), for every
\* trans_index inside or outside [0,1] and every W >= 1, and in the documented
\* layout the decoded pose is the pose of that number; with the poses
\* (identity, translate by (1,0,0)), identity model, trans_index = 1,
\* xyz = offset = 0 and range = 1 the point resolves to (1,0,0).
PoseSelection ==
    pc = "drawn" =>
        LET w == Len(upl.poses)
            c == SelectedColumn(vin.a.trans_index, w)
            img == textures["transformation"].image
        IN  /\ vout.texels = [r0 |-> img[1][c + 1], r1 |-> img[2][c + 1],
                              r2 |-> img[3][c + 1], t |-> img[4][c + 1]]
            /\ upl.layout = "columns" => vout.car_pose = upl.poses[c + 1]
            /\ (RLe(vin.a.trans_index, Zero) /\ upl.layout = "columns") =>
                    vout.car_pose = upl.poses[1]
            /\ (RLe(One, vin.a.trans_index) /\ upl.layout = "columns") =>
                    vout.car_pose = upl.poses[w]
            /\ (/\ upl.poses = <<Identity4, Rigid(IdRot, <<1, 0, 0>>)>>
                /\ vin.model = Identity4
                /\ vin.a.trans_index = One
                /\ vin.a.xyz = V3(0, 0, 0) /\ vin.a.offset = V3(0, 0, 0)
                /\ vin.a.range = One) =>
                    MatVec(vout.car_pose, vout.local_point) = V3(1, 0, 0) \o <<One>>

\* C5 witness: the two-pose scenario has been drawn with trans_index = 1
LastPoseSelectedAtOne ==
    /\ pc = "drawn"
    /\ upl.poses = <<Identity4, Rigid(IdRot, <<1, 0, 0>>)>>
    /\ upl.layout = "columns"
    /\ vin.model = Identity4
    /\ vin.a.trans_index = One
    /\ vin.a.xyz = V3(0, 0, 0) /\ vin.a.offset = V3(0, 0, 0)
    /\ vin.a.range = One
    /\ vout.car_pose = Rigid(IdRot, <<1, 0, 0>>)

---------------------------------------------------------------------------
(* The fragment stages *)

\* colours: the greys of the grid and one colour with distinct channels
Colours == {<<g, g, g>> : g \in Grid} \cup {<<One, Zero, Norm(1, GridDen)>>}
\* RGBA values with all components in [0,1]
Texels4 == {c \o <<a>> : c \in Colours, a \in Grid}

Rgb(v) == <<v[1], v[2], v[3]>>

\* vec3 / float, component by component
VDivOutcomes(v, a) ==
    {<<x, y, z>> : x \in DivOutcomes(v[1], a), y \in DivOutcomes(v[2], a),
                   z \in DivOutcomes(v[3], a)}

\* a variant that looks the palette up by the key's alpha
PointBaseColourByAlpha(palette, mono, key) ==
    IF mono THEN Rgb(Sample(palette, key[4], One)) ELSE Rgb(key)

\* vec3 c = mono ? texture(palette, vec2(key.r, 1)).rgb : key.rgb;
PointBaseColour(palette, mono, key) ==
    IF mono THEN Rgb(Sample(palette, key[1], One)) ELSE Rgb(key)

\* main() of point_fragment_shader_code, up to the final division:
\* color = vec4(color_rgb / color_a, color_a)
point_fragment_shader(palette, mono, key, mask) ==
    LET c == PointBaseColour(palette, mono, key)
        color_a == RAdd(mask[4], RMul(key[4], RSub(One, mask[4])))
        color_rgb == VAdd(VScale(Rgb(mask), mask[4]),
                          VScale(VScale(c, key[4]), RSub(One, mask[4])))
    IN  [c |-> c, color_a |-> color_a, color_rgb |-> color_rgb]

\* the values color may take
PointFragmentColours(palette, mono, key, mask) ==
    LET f == point_fragment_shader(palette, mono, key, mask)
    IN  {rgb \o <<f.color_a>> : rgb \in VDivOutcomes(f.color_rgb, f.color_a)}

\* main() of image_fragment_shader_code, up to the final division; m and itex
\* are the texels texture(mask, uv) and texture(image, uv)
image_fragment_shader(palette, mono, use_palette, m, itex) ==
    LET key_color == IF use_palette THEN Rgb(Sample(palette, itex[1], One))
                     ELSE <<itex[1], itex[1], itex[1]>>
        img_color == IF mono THEN key_color ELSE Rgb(itex)
        color_a == RAdd(m[4], RMul(itex[4], RSub(One, m[4])))
        color_rgb == VAdd(VScale(Rgb(m), m[4]), VScale(img_color, RSub(One, m[4])))
    IN  [img_color |-> img_color, color_a |-> color_a, color_rgb |-> color_rgb]

\* a variant that takes the nearest ring below (floor for round)
RingSignedDistancesFloor(radius, ring_range) ==
    {RSub(radius, RMul(R(RFloor(RDiv(radius, ring_range))), ring_range))}

\* float signedDistance = radius - round(radius/ring_range)*ring_range;
RingSignedDistances(radius, ring_range) ==
    {RSub(radius, RMul(R(k), ring_range)) :
        k \in RoundOutcomes(RDiv(radius, ring_range))}

\* main() of ring_fragment_shader_code: the colours the fragment may get
\* (ring_range > 0 and a non-zero gradient)
ring_fragment_shader(ring_xy, ring_range, ring_thickness, gradient) ==
    LET radius == Length2(ring_xy)
        len == Length2(gradient)
    IN  {LET rangeFromLine == RAbs(RDiv(signedDistance, len))
             drawn == RClamp(RSub(ring_thickness, rangeFromLine), Zero, One)
             lineWeight == IF RLt(R(1000), radius)
                              \/ RLt(radius, RMul(ring_range, <<1, 10>>))
                           THEN Zero ELSE drawn
         IN  [radius |-> radius, len |-> len, lineWeight |-> lineWeight,
              color |-> <<RMul(<<3, 20>>, lineWeight), RMul(<<3, 20>>, lineWeight),
                          RMul(<<3, 20>>, lineWeight), One>>] :
            signedDistance \in RingSignedDistances(radius, ring_range)}

\* palettes the host uploads: a grey ramp that maps every grid value to
\* itself, as floats or in the default 8-bit format, and a colour ramp
PaletteKinds == {"grey32f", "grey8", "spectrum"}
PaletteWidth == GridDen + 1
PaletteArray(kind) ==
    [n \in 1..(PaletteWidth * 3) |->
        LET i == (n - 1) \div 3
            k == ((n - 1) % 3) + 1
            x == Norm(i, GridDen)
        IN  IF kind = "spectrum"
            THEN (IF k = 1 THEN RSub(One, x) ELSE IF k = 2 THEN x ELSE Zero)
            ELSE x]

InitFrag ==
    /\ gl = [shaders |-> <<>>, programs |-> <<>>]
    /\ out = NoOutput
    /\ ncalls = 0
    /\ textures = [h \in TexIds |-> DefaultTexture]
    /\ upl = "none"
    /\ vin = NoStage /\ vout = NoStage /\ fin = NoStage /\ fout = NoStage
    /\ pc = "frag"

\* the host uploads a palette through load_texture
UploadPalette ==
    /\ pc = "frag"
    /\ \E kind \in PaletteKinds, tieUp \in BOOLEAN :
        /\ textures' = load_texture(textures, PaletteArray(kind), PaletteWidth, 1,
                                    "palette",
                                    IF kind = "grey8" THEN "GL_RGB" ELSE "GL_RGB32F",
                                    "GL_RGB", tieUp)
        /\ upl' = kind
    /\ UNCHANGED <<gl, out, ncalls, vin, vout, fin, fout, pc>>

\* one invocation of the point fragment stage
PointFragment ==
    /\ pc = "frag"
    /\ \E key \in Texels4, mask \in Texels4, mono \in BOOLEAN :
        LET f == point_fragment_shader(textures["palette"], mono, key, mask)
        IN  /\ fin' = [stage |-> "point_fragment", key |-> key, mask |-> mask,
                       mono |-> mono]
            /\ \E color \in PointFragmentColours(textures["palette"], mono, key, mask) :
                fout' = [stage |-> "point_fragment", c |-> f.c,
                         color_a |-> f.color_a, color |-> color]
    /\ pc' = "shaded"
    /\ UNCHANGED <<gl, out, ncalls, textures, upl, vin, vout>>

\* one invocation of the image fragment stage
ImageFragment ==
    /\ pc = "frag"
    /\ \E m \in Texels4, itex \in Texels4, mono \in BOOLEAN, use_palette \in BOOLEAN :
        LET f == image_fragment_shader(textures["palette"], mono, use_palette, m, itex)
        IN  /\ fin' = [stage |-> "image_fragment", m |-> m, itex |-> itex,
                       mono |-> mono, use_palette |-> use_palette]
            /\ \E rgb \in VDivOutcomes(f.color_rgb, f.color_a) :
                fout' = [stage |-> "image_fragment", c |-> f.img_color,
                         color_a |-> f.color_a, color |-> rgb \o <<f.color_a>>]
    /\ pc' = "shaded"
    /\ UNCHANGED <<gl, out, ncalls, textures, upl, vin, vout>>

\* the fragment is written; the next one may be shaded
EndFragment ==
    /\ pc = "shaded"
    /\ fin' = NoStage /\ fout' = NoStage
    /\ pc' = "frag"
    /\ UNCHANGED <<gl, out, ncalls, textures, upl, vin, vout>>

NextFrag == UploadPalette \/ PointFragment \/ ImageFragment \/ EndFragment

SpecFrag == InitFrag /\ [][NextFrag]_vars

\* ring fragments: radii on and between the rings, at the centre and beyond
\* the maximum radius, along the x axis and along (3,4)/5
RingRadii ==
    {Zero, <<1, 4>>, <<1, 2>>, One, <<5, 2>>, R(4), R(5), <<51, 10>>, R(7),
     <<15, 2>>, R(10), R(1000), R(1001)}
AlongAxes(r) == {<<r, Zero>>, <<RMul(<<3, 5>>, r), RMul(<<4, 5>>, r)>>}
RingPoints == UNION {AlongAxes(r) : r \in RingRadii}
RingRanges == {R(5), R(2)}
RingThicknesses == {<<1, 10>>, One, R(2)}
\* screen-space derivatives of radius (metres per pixel), never both zero
RingGradients ==
    UNION {AlongAxes(l) : l \in {<<1, 100>>, <<1, 10>>, One, R(25), R(50)}}

InitRing ==
    /\ gl = [shaders |-> <<>>, programs |-> <<>>]
    /\ out = NoOutput
    /\ ncalls = 0
    /\ textures = NoTextures
    /\ upl = "none"
    /\ vin = NoStage /\ vout = NoStage /\ fin = NoStage /\ fout = NoStage
    /\ pc = "ring"

\* one invocation of the ring fragment stage
RingFragment ==
    /\ pc = "ring"
    /\ \E ring_xy \in RingPoints, ring_range \in RingRanges,
          ring_thickness \in RingThicknesses, gradient \in RingGradients :
        /\ fin' = [stage |-> "ring_fragment", ring_xy |-> ring_xy,
                   ring_range |-> ring_range, ring_thickness |-> ring_thickness,
                   gradient |-> gradient]
        /\ \E f \in ring_fragment_shader(ring_xy, ring_range, ring_thickness, gradient) :
            fout' = [stage |-> "ring_fragment", radius |-> f.radius, len |-> f.len,
                     lineWeight |-> f.lineWeight, color |-> f.color]
    /\ pc' = "ringed"
    /\ UNCHANGED <<gl, out, ncalls, textures, upl, vin, vout>>

EndRingFragment ==
    /\ pc = "ringed"
    /\ fin' = NoStage /\ fout' = NoStage
    /\ pc' = "ring"
    /\ UNCHANGED <<gl, out, ncalls, textures, upl, vin, vout>>

NextRing == RingFragment \/ EndRingFragment

SpecRing == InitRing /\ [][NextRing]_vars

---------------------------------------------------------------------------
(* Properties of the fragment stages (SpecFrag) *)

\* C1: point fragment stage, all components in [0,1]: with mask.a = 0 the
\* output is exactly (c, key.a); with mask.a = 1 it is exactly (mask.rgb, 1);
\* with mask.a = key.a = 0 the output alpha is 0 and the colour is a defined
\* value (no NaN, no infinity).
PointCompositingEdgeCases ==
    fout.stage = "point_fragment" =>
        /\ fin.mask[4] = Zero => fout.color = fout.c \o <<fin.key[4]>>
        /\ fin.mask[4] = One => fout.color = Rgb(fin.mask) \o <<One>>
        /\ (fin.mask[4] = Zero /\ fin.key[4] = Zero) =>
            /\ fout.color[4] = Zero
            /\ \A k \in 1..3 : IsFinite(fout.color[k])

\* the "over" operator: overlay (o_rgb, o_a) over base (b_rgb, b_a)
OverAlpha(o_a, b_a) == RAdd(o_a, RMul(b_a, RSub(One, o_a)))
OverRgb(o_rgb, o_a, b_rgb, b_a) ==
    LET num == VAdd(VScale(o_rgb, o_a), VScale(VScale(b_rgb, b_a), RSub(One, o_a)))
    IN  [k \in 1..3 |-> RDiv(num[k], OverAlpha(o_a, b_a))]

\* C2: the image fragment stage computes the same "over" law as the point
\* stage with base (img_color, itex.a) and overlay (m.rgb, m.a): wherever the
\* output alpha is not 0, alpha = m.a + itex.a*(1-m.a) and
\* rgb = (m.rgb*m.a + img_color*itex.a*(1-m.a)) / alpha; with use_palette =
\* false, mono = false and m.a = 0 the output is (itex.rgb, itex.a).
ImageFollowsOverLaw ==
    (fout.stage = "image_fragment" /\ fout.color_a # Zero) =>
        /\ fout.color[4] = OverAlpha(fin.m[4], fin.itex[4])
        /\ Rgb(fout.color) = OverRgb(Rgb(fin.m), fin.m[4], fout.c, fin.itex[4])
        /\ (~fin.use_palette /\ ~fin.mono /\ fin.m[4] = Zero) =>
                fout.color = fin.itex

\* the palette maps every key value of the grid to itself (as a grey)
IdentityPalette(t) == \A x \in Grid : Rgb(Sample(t, x, One)) = <<x, x, x>>

GreyKey(key) == key[2] = key[1] /\ key[3] = key[1]

\* C9 as stated: with an identity palette the base colour of the palette path
\* (mono = true) equals key.rgb, the base colour of the direct path, for
\* every key.
PalettePathEqualsDirectPath ==
    (fout.stage = "point_fragment" /\ fin.mono
        /\ IdentityPalette(textures["palette"])) =>
            fout.c = Rgb(fin.key)

\* C9 amended: with an identity palette the palette path (mono = true)
\* resolves the base colour (key.r, key.r, key.r); for every key with
\* key.r = key.g = key.b this is key.rgb, the base colour of the direct path,
\* and for every mask the output alpha is the direct path's and the output
\* colour is one the direct path can produce.
PalettePathOnGreyKeys ==
    (fout.stage = "point_fragment" /\ fin.mono
        /\ IdentityPalette(textures["palette"])) =>
            /\ fout.c = <<fin.key[1], fin.key[1], fin.key[1]>>
            /\ GreyKey(fin.key) =>
                /\ fout.c = Rgb(fin.key)
                /\ fout.color \in PointFragmentColours(textures["palette"], FALSE,
                                                       fin.key, fin.mask)

\* C9 witness: a grey key strictly inside (0,1) shaded through an identity
\* palette under a half-transparent mask
GreyKeyThroughIdentityPalette ==
    /\ fout.stage = "point_fragment"
    /\ fin.mono
    /\ IdentityPalette(textures["palette"])
    /\ fin.key = <<Norm(1, GridDen), Norm(1, GridDen), Norm(1, GridDen), One>>
    /\ fin.mask = <<One, Zero, Norm(1, GridDen), Norm(1, GridDen)>>

---------------------------------------------------------------------------
(* Properties of the ring fragment stage (SpecRing) *)

\* distance from r to the nearest multiple of step
NearestMultipleDistance(r, step) ==
    LET below == RMul(R(RFloor(RDiv(r, step))), step)
    IN  RMin(RSub(r, below), RSub(RAdd(below, step), r))

Suppressed(radius, ring_range) ==
    RLt(R(1000), radius) \/ RLt(radius, RMul(<<1, 10>>, ring_range))

ScenarioRing ==
    /\ fout.stage = "ring_fragment"
    /\ fin.ring_range = R(5)
    /\ fin.ring_thickness = <<1, 10>>

\* C10 as stated, its scenario: with ring_range = 5 and ring_thickness = 0.1
\* a fragment at radius 5 gets weight 0.1 and a fragment at radius 2.5 gets
\* weight 0, for every positive len.
RingScenarioEveryLen ==
    ScenarioRing =>
        /\ fout.radius = R(5) => fout.lineWeight = <<1, 10>>
        /\ fout.radius = <<5, 2>> => fout.lineWeight = Zero

\* C10 amended: the line weight is
\* clamp(ring_thickness - |radius - nearest multiple of ring_range| / len, 0, 1),
\* forced to 0 when radius > 1000 or radius < 0.1*ring_range, and the colour is
\* (0.15*weight, 0.15*weight, 0.15*weight, 1); with ring_range = 5 and
\* ring_thickness = 0.1 a fragment at radius 5 gets 0.1, the largest weight
\* any fragment gets, for every positive len, and a fragment at radius 2.5
\* gets clamp(0.1 - 2.5/len, 0, 1), which is 0 exactly when len <= 25.
RingLineWeight ==
    fout.stage = "ring_fragment" =>
        /\ fout.radius = Length2(fin.ring_xy)
        /\ fout.lineWeight =
            IF Suppressed(fout.radius, fin.ring_range) THEN Zero
            ELSE RClamp(RSub(fin.ring_thickness,
                             RDiv(NearestMultipleDistance(fout.radius, fin.ring_range),
                                  fout.len)),
                        Zero, One)
        /\ fout.color = <<RMul(<<3, 20>>, fout.lineWeight),
                          RMul(<<3, 20>>, fout.lineWeight),
                          RMul(<<3, 20>>, fout.lineWeight), One>>
        /\ ScenarioRing =>
            /\ RLe(fout.lineWeight, <<1, 10>>)
            /\ fout.radius = R(5) => fout.lineWeight = <<1, 10>>
            /\ fout.radius = <<5, 2>> =>
                /\ fout.lineWeight =
                    RClamp(RSub(<<1, 10>>, RDiv(<<5, 2>>, fout.len)), Zero, One)
                /\ fout.lineWeight = Zero <=> RLe(fout.len, R(25))

\* C10 witness: the scenario's fragment at radius 2.5, so far zoomed out
\* (50 metres per pixel) that it is drawn
MidRingFragmentDrawn ==
    /\ ScenarioRing
    /\ fout.radius = <<5, 2>>
    /\ fout.len = R(50)
    /\ fout.lineWeight = <<1, 20>>

=============================================================================
